---- MODULE Spec2Model ----
(***************************************************************************)
(* Galamsey Reporter (src/src/App.tsx): the report collection, the        *)
(* safe-upload gate, the lifecycle handlers and the sync timers of the     *)
(* App component, as a state machine.                                      *)
(*                                                                         *)
(* Conventions of the model                                                *)
(*  - a handler runs to completion against the current React state (the    *)
(*    component re-renders after every state update, so the closures the   *)
(*    handlers read are those of the latest render);                       *)
(*  - time is Date.now() in milliseconds; ISO timestamps are the same      *)
(*    integers (toISOString / new Date(..).getTime() round-trips exactly); *)
(*  - coordinates are in units of 1e-4 degree and every model point lies   *)
(*    on the meridian lon = -0.2000;                                       *)
(*  - null is the record Null; a uuid is a fresh integer.                  *)
(***************************************************************************)
EXTENDS Integers, Sequences, FiniteSets, TLC

VARIABLES reports, online, userLoc, settings, form, now, timers, signal, nextId, probe,
          due, localStorage, mounted, watchId, watching

vars == <<reports, online, userLoc, settings, form, now, timers, signal, nextId, probe, due,
          localStorage, mounted, watchId, watching>>

(***************************************************************************)
(* Bounds of the model.                                                    *)
(***************************************************************************)
\* Resolved entries one history may hold (repeated "Mark Resolved (demo)")
MaxResolved == 2
\* steps of the wall clock
MaxClock == 1
\* manualSync acknowledgements that may be pending at once
MaxPending == 2

(***************************************************************************)
(* Values.                                                                 *)
(***************************************************************************)
Null == [null |-> TRUE]

\* the identifiers uuidv4 may hand out, in the order it does: one report, or
\* two reports sharing the collection
SoloIds == {1}
PairIds == {1, 2}

\* the wall clock advances in steps of thirty minutes, the default maxWaitMins
ClockStep == 30 * 60 * 1000

\* the capture point (5.6000, -0.2000), a fix about 55 m and one about 1055 m north
Origin == [lat |-> 56000, lon |-> -2000]
Near == [lat |-> 56005, lon |-> -2000]
Far == [lat |-> 56095, lon |-> -2000]
Fixes == {Near, Far}

\* what the user may type into the two Upload-When-Safe inputs
MinMetersChoices == {1000, 2000}
MaxWaitMinsChoices == {30, 60}

DefaultSettings == [minMeters |-> 1000, maxWaitMins |-> 30]

STATUSES == <<"Queued", "Submitted", "Received", "In Progress", "Resolved">>

indexOf(s) ==
  IF \E i \in 1..Len(STATUSES) : STATUSES[i] = s
  THEN (CHOOSE i \in 1..Len(STATUSES) : STATUSES[i] = s) - 1
  ELSE -1

Abs(x) == IF x < 0 THEN -x ELSE x

\* Math.max(min, Math.min(max, v))
clamp(v, lo, hi) ==
  LET m == IF hi < v THEN hi ELSE v
  IN IF lo > m THEN lo ELSE m

\* Great-circle distance in whole metres.  With dLon = 0 the haversine term is
\* a = sin^2(dLat/2), so c = |dLat| (radians) and R*c = 6371000 * pi/180 * |dLat|
\* = 111194.93 m per degree = 11.1195 m per 1e-4 degree.
haversine(lat1, lon1, lat2, lon2) ==
  (Abs(lat2 - lat1) * 111195) \div 10000

(***************************************************************************)
(* The report form.                                                        *)
(***************************************************************************)
EmptyContact == [phone |-> "", email |-> "", wantsCallback |-> FALSE, preferredTime |-> ""]

EmptyForm ==
  [category |-> "", description |-> "", gps |-> Null, blurRadius |-> 300,
   anonymous |-> TRUE, contact |-> EmptyContact, rewardOptIn |-> FALSE,
   stealth |-> FALSE, uploadWhenSafe |-> TRUE,
   checklistMode |-> FALSE, checklistTypes |-> <<>>]

\* the activity types a checklist may hold: no key, a key unticked, a key ticked
ChecklistTypeChoices ==
  {<<>>, [k \in {"excavator"} |-> FALSE], [k \in {"excavator"} |-> TRUE]}

sel(obj) == {k \in DOMAIN obj : obj[k]}

\* `Checklist report - Types: ... .` : the text depends on the ticked types
buildChecklistDescription(types) ==
  IF sel(types) = {} THEN "Checklist report: Types: (none)."
  ELSE "Checklist report: Types: excavator."

\* firstType.replace(/([A-Z])/g, " $1").replace(/^./, upper)
Titled(k) == IF k = "excavator" THEN "Excavator" ELSE k

(***************************************************************************)
(* Persistence (lines 56-57, 76-88).  A key of localStorage is missing     *)
(* (Null), holds text JSON.parse rejects (Garbled) or holds the text of a  *)
(* JSON value.  JSON.stringify yields text, JSON.parse yields the value of *)
(* a text again and throws on text that is not JSON.                       *)
(***************************************************************************)
Garbled == [parses |-> FALSE]

JsonNull == [kind |-> "null"]

JsonArray(items) == [kind |-> "array", items |-> items]

JsonObject(safe) == [kind |-> "object", safe |-> safe]

\* a number that is not finite (NaN, Infinity)
NaN == 999999999

\* a number formatted to whole degrees
jsonNumberWholeDegrees(x) == IF x = NaN THEN Null ELSE (x \div 10000) * 10000

\* JSON.stringify writes a finite number with the digits that read back as
\* the same number, and null for a number that is not finite
jsonNumber(x) == IF x = NaN THEN Null ELSE x

jsonPoint(p) == [p EXCEPT !.lat = jsonNumber(@), !.lon = jsonNumber(@)]

\* what JSON.stringify writes for one report: strings, booleans, null, arrays
\* and member names are kept; the numbers are those of gps, publicOffset,
\* safeUpload.captureLoc and blurRadius
jsonReport(r) ==
  [r EXCEPT !.gps = jsonPoint(@),
            !.publicOffset = jsonPoint(@),
            !.blurRadius = jsonNumber(@),
            !.safeUpload = IF "captureLoc" \in DOMAIN @
                           THEN [@ EXCEPT !.captureLoc = jsonPoint(@)]
                           ELSE @]

\* JSON.stringify(v): text without white space
stringify(v) == [parses |-> TRUE, indent |-> 0, value |-> v]

\* JSON.stringify(v, null, 2): the same text broken into indented lines
stringifyIndented(v) == [parses |-> TRUE, indent |-> 2, value |-> v]

\* JSON.parse(text) of text that is JSON: white space between tokens is skipped
parse(raw) == raw.value

\* raw ? JSON.parse(raw) : [] inside try, [] in catch
loadReports(raw) ==
  IF raw = Null THEN JsonArray(<<>>)
  ELSE IF ~raw.parses THEN JsonArray(<<>>)
  ELSE parse(raw)

saveReports(arr) == stringify(JsonArray([k \in 1..Len(arr) |-> jsonReport(arr[k])]))

\* lines 340-346: the text of the downloaded file report_<id>.json
exportJSON(r) == stringifyIndented(jsonReport(r))

loadSettings(raw) ==
  IF raw = Null THEN JsonObject(DefaultSettings)
  ELSE IF ~raw.parses THEN JsonObject(DefaultSettings)
  ELSE parse(raw)

saveSettings(st) == stringify(JsonObject(st))

\* a persistence effect that writes the collection of the previous render
persistedStale(rs) == [localStorage EXCEPT !.reports = saveReports(reports)]

\* useEffect(() => saveReports(reports), [reports]): after the commit of a new
\* collection the whole stored text is replaced by the text of that collection
persisted(rs) == [localStorage EXCEPT !.reports = saveReports(rs)]

(***************************************************************************)
(* Initial state: empty storage, default settings, the pristine form.      *)
(***************************************************************************)
Init ==
  /\ reports = <<>>
  /\ online \in BOOLEAN
  /\ userLoc = Null
  /\ settings = DefaultSettings
  /\ form = EmptyForm
  /\ now = 0
  /\ timers = 0
  /\ signal = "none"
  /\ nextId = 1
  /\ probe = Null
  /\ due = FALSE
  /\ localStorage = [reports |-> saveReports(<<>>), settings |-> saveSettings(DefaultSettings)]
  /\ mounted = TRUE
  /\ watchId = [current |-> 1]
  /\ watching = TRUE

(***************************************************************************)
(* Safe-upload gate.                                                       *)
(***************************************************************************)
\* a gate that opens only after the wait has been exceeded
isReportSafeToUploadStrict(r, loc, t) ==
  IF ~r.safeUpload.required THEN TRUE
  ELSE IF t - r.createdAt > settings.maxWaitMins * 60 * 1000 THEN TRUE
       ELSE IF loc = Null THEN FALSE
       ELSE haversine(loc.lat, loc.lon,
                      r.safeUpload.captureLoc.lat, r.safeUpload.captureLoc.lon)
              >= settings.minMeters

\* a gate that opens at the moment the wait ends and not after it
isReportSafeToUploadAtDeadline(r, loc, t) ==
  IF ~r.safeUpload.required THEN TRUE
  ELSE IF t - r.createdAt = settings.maxWaitMins * 60 * 1000 THEN TRUE
       ELSE IF loc = Null THEN FALSE
            ELSE haversine(loc.lat, loc.lon,
                           r.safeUpload.captureLoc.lat, r.safeUpload.captureLoc.lon)
                   >= settings.minMeters

\* a gate that asks for a location fix before it looks at the wait
isReportSafeToUploadNeedsFix(r, loc, t) ==
  IF ~r.safeUpload.required THEN TRUE
  ELSE IF loc = Null THEN FALSE
       ELSE IF t - r.createdAt >= settings.maxWaitMins * 60 * 1000 THEN TRUE
            ELSE haversine(loc.lat, loc.lon,
                           r.safeUpload.captureLoc.lat, r.safeUpload.captureLoc.lon)
                   >= settings.minMeters

isReportSafeToUpload(r, loc, t) ==
  IF ~r.safeUpload.required THEN TRUE
  ELSE LET minMeters == settings.minMeters
           maxWaitMs == settings.maxWaitMins * 60 * 1000
           createdMs == r.createdAt
           waited == t - createdMs
       IN IF waited >= maxWaitMs THEN TRUE
          ELSE IF loc = Null THEN FALSE
          ELSE haversine(loc.lat, loc.lon,
                         r.safeUpload.captureLoc.lat, r.safeUpload.captureLoc.lon)
                 >= minMeters

(***************************************************************************)
(* Environment: clock, connectivity, location fixes, settings, form edits. *)
(***************************************************************************)
ClockAdvance ==
  /\ now < MaxClock * ClockStep
  /\ now' = now + ClockStep
  /\ UNCHANGED <<reports, online, userLoc, settings, form, timers, signal, nextId, probe, due, localStorage,
                mounted, watchId, watching>>

onOnline ==
  /\ mounted
  /\ online' = TRUE
  /\ signal' = "none"
  /\ UNCHANGED <<reports, userLoc, settings, form, now, timers, nextId, probe, due, localStorage,
                mounted, watchId, watching>>

onOffline ==
  /\ mounted
  /\ online' = FALSE
  /\ signal' = "none"
  /\ UNCHANGED <<reports, userLoc, settings, form, now, timers, nextId, probe, due, localStorage,
                mounted, watchId, watching>>

\* The readiness interval (lines 224-233) is cleared and started again
\* whenever one of its dependencies userLoc.lat, userLoc.lon, minMeters,
\* maxWaitMins changes: its 30 s start over.  `due` says that 30 s have passed
\* since the interval was started or last fired.
dueAfter(dep, depNext) == IF depNext # dep THEN FALSE ELSE due

\* getCurrentPosition / watchPosition success callback
setUserLoc ==
  IF mounted
  THEN /\ \E fix \in Fixes : userLoc' = fix
       /\ due' = dueAfter(userLoc, userLoc')
       /\ signal' = "none"
       /\ UNCHANGED <<reports, online, settings, form, now, timers, nextId, probe, localStorage,
                     mounted, watchId, watching>>
  \* a watch that was not released still delivers fixes; the state update of
  \* an unmounted component is dropped
  ELSE /\ watching
       /\ signal' = "position_after_unmount"
       /\ UNCHANGED <<reports, online, userLoc, settings, form, now, timers, nextId, probe, due,
                     localStorage, mounted, watchId, watching>>

\* Number(e.target.value) || 1000
setMinMeters ==
  /\ mounted
  /\ \E v \in MinMetersChoices \cup {0} :
       settings' = [settings EXCEPT !.minMeters = IF v = 0 THEN 1000 ELSE v]
  /\ due' = dueAfter(settings, settings')
  /\ signal' = "none"
  /\ localStorage' = [localStorage EXCEPT !.settings = saveSettings(settings')]
  /\ UNCHANGED <<reports, online, userLoc, form, now, timers, nextId, probe,
                mounted, watchId, watching>>

\* Number(e.target.value) || 30
setMaxWaitMins ==
  /\ mounted
  /\ \E v \in MaxWaitMinsChoices \cup {0} :
       settings' = [settings EXCEPT !.maxWaitMins = IF v = 0 THEN 30 ELSE v]
  /\ due' = dueAfter(settings, settings')
  /\ signal' = "none"
  /\ localStorage' = [localStorage EXCEPT !.settings = saveSettings(settings')]
  /\ UNCHANGED <<reports, online, userLoc, form, now, timers, nextId, probe,
                mounted, watchId, watching>>

\* the onChange handlers of the form and captureGPS: the form becomes one of F
setForm(F) ==
  /\ mounted
  /\ \E f \in F : form' = f
  /\ signal' = "none"
  /\ UNCHANGED <<reports, online, userLoc, settings, now, timers, nextId, probe, due, localStorage,
                mounted, watchId, watching>>

(***************************************************************************)
(* submitReport.                                                           *)
(***************************************************************************)
descAuto(f) == IF f.checklistMode THEN buildChecklistDescription(f.checklistTypes) ELSE ""

\* [descAuto, form.description].filter(Boolean).join("\n"), as the sequence of its lines
finalDesc(f) == SelectSeq(<<descAuto(f), f.description>>, LAMBDA line : line # "")

\* lines 287-290: the handler writes the derived category into the form object
deriveCategory(f) ==
  IF f.category = "" /\ f.checklistMode /\ DOMAIN f.checklistTypes # {}
     /\ sel(f.checklistTypes) # {}
  THEN [f EXCEPT !.category = Titled(CHOOSE k \in sel(f.checklistTypes) : TRUE)]
  ELSE f

\* line 292
rejected(f) == ~(f.category # "" \/ f.checklistMode) \/ finalDesc(f) = <<>> \/ f.gps = Null

initialStatus(isOnline) == IF isOnline THEN "Submitted" ELSE "Queued"

\* a gate requested by the upload-when-safe box alone
safeUploadForDeferredOnly(f, nowIso) ==
  IF f.uploadWhenSafe
  THEN [required |-> TRUE, ready |-> FALSE,
        captureLoc |-> [lat |-> f.gps.lat, lon |-> f.gps.lon], createdAt |-> nowIso]
  ELSE [required |-> FALSE, ready |-> TRUE]

\* a gate that starts closed whether or not it is required
safeUploadForClosed(f, nowIso) ==
  IF f.uploadWhenSafe \/ f.stealth
  THEN [required |-> TRUE, ready |-> FALSE,
        captureLoc |-> [lat |-> f.gps.lat, lon |-> f.gps.lon], createdAt |-> nowIso]
  ELSE [required |-> FALSE, ready |-> FALSE]

safeUploadFor(f, nowIso) ==
  IF f.uploadWhenSafe \/ f.stealth
  THEN [required |-> TRUE, ready |-> FALSE,
        captureLoc |-> [lat |-> f.gps.lat, lon |-> f.gps.lon], createdAt |-> nowIso]
  ELSE [required |-> FALSE, ready |-> TRUE]

\* the contact details of the form with empty fields as null
sharedContact(f) ==
  [phone |-> IF f.contact.phone # "" THEN f.contact.phone ELSE "null",
   email |-> IF f.contact.email # "" THEN f.contact.email ELSE "null",
   wantsCallback |-> f.contact.wantsCallback,
   preferredTime |-> IF f.contact.preferredTime # "" THEN f.contact.preferredTime ELSE "null"]

\* a contact that is stored whatever the anonymity choice
contactForKept(f) == sharedContact(f)

contactFor(f) == IF f.anonymous THEN Null ELSE sharedContact(f)

newReport(f, id, br, nowIso, isOnline) ==
  [id |-> id, createdAt |-> nowIso,
   category |-> IF f.category # "" THEN f.category ELSE "(checklist)",
   description |-> finalDesc(f),
   gps |-> f.gps, blurRadius |-> br,
   publicOffset |-> [lat |-> f.gps.lat, lon |-> f.gps.lon],
   anonymous |-> f.anonymous,
   contact |-> contactFor(f),
   rewardOptIn |-> ~f.anonymous /\ f.rewardOptIn,
   status |-> initialStatus(isOnline),
   history |-> <<[state |-> initialStatus(isOnline), at |-> nowIso]>>,
   safeUpload |-> safeUploadFor(f, nowIso)]

submitReport(ids) ==
  /\ mounted
  /\ LET f == deriveCategory(form)
         br == clamp(f.blurRadius, 0, 2000)
     IN IF rejected(f)
        THEN /\ form' = f
             /\ signal' = "alert_validation"
             /\ UNCHANGED <<reports, online, userLoc, settings, now, timers, nextId, probe, due, localStorage,
                           mounted, watchId, watching>>
        ELSE IF br > 0
        \* line 300 calls the unbound name `max` while building the arguments of
        \* randomPointInRing: the handler ends in a ReferenceError before setReports
        THEN /\ form' = f
             /\ signal' = "ReferenceError"
             /\ UNCHANGED <<reports, online, userLoc, settings, now, timers, nextId, probe, due, localStorage,
                           mounted, watchId, watching>>
        ELSE /\ nextId \in ids
             /\ reports' = <<newReport(f, nextId, br, now, online)>> \o reports
             /\ form' = EmptyForm
             /\ nextId' = nextId + 1
             /\ signal' = "none"
             /\ localStorage' = persisted(reports')
             /\ UNCHANGED <<online, userLoc, settings, now, timers, probe, due,
                           mounted, watchId, watching>>

(***************************************************************************)
(* Lifecycle handlers of My Reports.                                       *)
(***************************************************************************)
\* a replacement that overwrites every report of the collection
replaceByIdEverywhere(prev, id, updated) ==
  [k \in 1..Len(prev) |-> updated]

replaceById(prev, id, updated) ==
  [k \in 1..Len(prev) |-> IF prev[k].id = id THEN updated ELSE prev[k]]

\* a status change that forgets the history entry
advancedNoHistory(r, at) ==
  [r EXCEPT !.status = STATUSES[indexOf(r.status) + 2]]

advanced(r, at) ==
  LET next == STATUSES[indexOf(r.status) + 2]
  IN [r EXCEPT !.status = next, !.history = Append(@, [state |-> next, at |-> at])]

\* an advance without the guard on the last status, starting over at Queued
advanceStatusCycling(i) ==
  /\ mounted
  /\ LET r == reports[i]
         next == STATUSES[((indexOf(r.status) + 1) % Len(STATUSES)) + 1]
         updated == [r EXCEPT !.status = next,
                              !.history = Append(@, [state |-> next, at |-> now])]
     IN /\ reports' = replaceById(reports, r.id, updated)
        /\ signal' = "none"
        /\ localStorage' = persisted(reports')
        /\ UNCHANGED <<online, userLoc, settings, form, now, timers, nextId, probe, due,
                      mounted, watchId, watching>>

advanceStatus(i) ==
  /\ mounted
  /\ LET r == reports[i]
         idx == indexOf(r.status)
     IN /\ reports' = IF idx < Len(STATUSES) - 1
                      THEN replaceById(reports, r.id, advanced(r, now))
                      ELSE reports
        /\ signal' = "none"
        /\ localStorage' = persisted(reports')
        /\ UNCHANGED <<online, userLoc, settings, form, now, timers, nextId, probe, due,
                      mounted, watchId, watching>>

\* a resolution that also opens the gate of the report
resolvedOpeningGate(r, at) ==
  [r EXCEPT !.status = "Resolved",
            !.history = Append(@, [state |-> "Resolved", at |-> at]),
            !.safeUpload.ready = TRUE]

\* a resolution that draws a new public pin
resolvedResampled(r, at) ==
  [r EXCEPT !.status = "Resolved",
            !.history = Append(@, [state |-> "Resolved", at |-> at]),
            !.publicOffset = [lat |-> r.gps.lat + 1, lon |-> r.gps.lon]]

resolved(r, at) ==
  [r EXCEPT !.status = "Resolved", !.history = Append(@, [state |-> "Resolved", at |-> at])]

countState(h, s) == Cardinality({k \in 1..Len(h) : h[k].state = s})

markResolvedDemo(i) ==
  /\ mounted
  /\ LET r == reports[i]
     IN /\ countState(r.history, "Resolved") < MaxResolved
        /\ reports' = replaceById(reports, r.id, resolved(r, now))
        /\ signal' = "none"
        /\ localStorage' = persisted(reports')
        /\ UNCHANGED <<online, userLoc, settings, form, now, timers, nextId, probe, due,
                      mounted, watchId, watching>>

\* a delete that also drops the reports listed after the deleted one
deleteReportAndOlder(i) ==
  /\ mounted
  /\ reports' = SubSeq(reports, 1, i - 1)
  /\ signal' = "none"
  /\ localStorage' = persisted(reports')
  /\ UNCHANGED <<online, userLoc, settings, form, now, timers, nextId, probe, due,
                mounted, watchId, watching>>

deleteReport(i) ==
  /\ mounted
  /\ reports' = SelectSeq(reports, LAMBDA r : r.id # reports[i].id)
  /\ signal' = "none"
  /\ localStorage' = persisted(reports')
  /\ UNCHANGED <<online, userLoc, settings, form, now, timers, nextId, probe, due,
                mounted, watchId, watching>>

(***************************************************************************)
(* SyncCoordinator: the 30 s readiness interval, manual sync and its       *)
(* delayed acknowledgement.                                                *)
(***************************************************************************)
\* a tick that stores the current decision instead of latching it
latchedFollowing(r, loc, t) ==
  IF ~r.safeUpload.required THEN r
  ELSE [r EXCEPT !.safeUpload.ready = isReportSafeToUpload(r, loc, t)]

\* a latch that opens every required gate without asking the gate
latchedUngated(r, loc, t) ==
  IF ~r.safeUpload.required THEN r
  ELSE IF ~r.safeUpload.ready
       THEN [r EXCEPT !.safeUpload.ready = TRUE]
       ELSE r

latched(r, loc, t) ==
  IF ~r.safeUpload.required THEN r
  ELSE IF isReportSafeToUpload(r, loc, t) /\ ~r.safeUpload.ready
       THEN [r EXCEPT !.safeUpload.ready = TRUE]
       ELSE r

\* the setInterval callback; the next one is due 30 s later
intervalTick ==
  /\ mounted
  /\ reports' = [k \in 1..Len(reports) |-> latched(reports[k], userLoc, now)]
  /\ due' = FALSE
  /\ signal' = "none"
  /\ localStorage' = persisted(reports')
  /\ UNCHANGED <<online, userLoc, settings, form, now, timers, nextId, probe,
                mounted, watchId, watching>>

\* 30 s pass without a restart of the interval
intervalElapses ==
  /\ mounted
  /\ ~due
  /\ due' = TRUE
  /\ UNCHANGED <<reports, online, userLoc, settings, form, now, timers, signal, nextId,
                 probe, localStorage, mounted, watchId, watching>>

\* the callback runs when it is due
intervalFires == due /\ intervalTick

\* a sync that submits a ready report whether or not it was submitted before
syncedResubmitting(r, loc, t) ==
  IF r.status = "Queued" \/ r.status = "Submitted"
  THEN IF ~isReportSafeToUpload(r, loc, t) THEN r
       ELSE [r EXCEPT !.status = "Submitted",
                      !.history = Append(@, [state |-> "Submitted", at |-> t]),
                      !.safeUpload.ready = TRUE]
  ELSE r

\* a sync that submits every queued report without asking the gate
syncedUngated(r, loc, t) ==
  IF r.status = "Queued"
  THEN [r EXCEPT !.status = "Submitted",
                 !.history = Append(@, [state |-> "Submitted", at |-> t]),
                 !.safeUpload.ready = TRUE]
  ELSE r

synced(r, loc, t) ==
  IF r.status = "Queued" \/ r.status = "Submitted"
  THEN IF ~isReportSafeToUpload(r, loc, t) THEN r
       ELSE IF r.status = "Queued"
            THEN [r EXCEPT !.status = "Submitted",
                           !.history = Append(@, [state |-> "Submitted", at |-> t]),
                           !.safeUpload.ready = TRUE]
            ELSE r
  ELSE r

\* a sync that does not look at the connectivity flag
manualSyncIgnoringOffline ==
  /\ mounted
  /\ timers < MaxPending
  /\ reports' = [k \in 1..Len(reports) |-> synced(reports[k], userLoc, now)]
  /\ timers' = timers + 1
  /\ signal' = "none"
  /\ localStorage' = persisted(reports')
  /\ UNCHANGED <<online, userLoc, settings, form, now, nextId, probe, due,
                mounted, watchId, watching>>

manualSync ==
  /\ mounted
  /\ IF ~online
     THEN /\ signal' = "alert_offline"
          /\ UNCHANGED <<reports, online, userLoc, settings, form, now, timers, nextId, probe, due, localStorage,
                        mounted, watchId, watching>>
     ELSE /\ timers < MaxPending
          /\ reports' = [k \in 1..Len(reports) |-> synced(reports[k], userLoc, now)]
          /\ timers' = timers + 1
          /\ signal' = "none"
          /\ localStorage' = persisted(reports')
          /\ UNCHANGED <<online, userLoc, settings, form, now, nextId, probe, due,
                        mounted, watchId, watching>>

\* an acknowledgement that does not check the report is still Submitted
acknowledgedUnguarded(r, at) ==
  IF r.status = "Submitted" \/ r.status = "Received"
  THEN [r EXCEPT !.status = "Received",
                 !.history = Append(@, [state |-> "Received", at |-> at])]
  ELSE r

\* an acknowledgement that overwrites the Submitted entry
acknowledgedRewriting(r, at) ==
  IF r.status = "Submitted"
  THEN [r EXCEPT !.status = "Received",
                 !.history = [@ EXCEPT ![Len(@)] = [state |-> "Received", at |-> at]]]
  ELSE r

acknowledged(r, at) ==
  IF r.status = "Submitted"
  THEN [r EXCEPT !.status = "Received",
                 !.history = Append(@, [state |-> "Received", at |-> at])]
  ELSE r

\* the setTimeout callback of manualSync
syncTimeout ==
  /\ timers > 0
  /\ timers' = timers - 1
  /\ IF mounted
     THEN /\ reports' = [k \in 1..Len(reports) |-> acknowledged(reports[k], now)]
          /\ signal' = "none"
          /\ localStorage' = persisted(reports')
     \* no handle of the timeout is kept, so it also runs after the unmount;
     \* the state update of an unmounted component is dropped
     ELSE /\ signal' = "timeout_after_unmount"
          /\ UNCHANGED <<reports, localStorage>>
  /\ UNCHANGED <<online, userLoc, settings, form, now, nextId, probe, due,
                mounted, watchId, watching>>

(***************************************************************************)
(* My Reports renders `isReportSafeToUpload(r, userLoc, Date.now())` for   *)
(* every card (lines 643-644); probe keeps one evaluation with its inputs. *)
(***************************************************************************)
render(i) ==
  /\ mounted
  /\ probe' = [r |-> reports[i], loc |-> userLoc, t |-> now,
               minMeters |-> settings.minMeters, maxWaitMins |-> settings.maxWaitMins,
               safe |-> isReportSafeToUpload(reports[i], userLoc, now)]
  /\ signal' = "none"
  /\ UNCHANGED <<reports, online, userLoc, settings, form, now, timers, nextId, due, localStorage,
                mounted, watchId, watching>>

(***************************************************************************)
(* Forms the user may have filled in.                                      *)
(***************************************************************************)
ValidForm(uws) ==
  [EmptyForm EXCEPT !.category = "Other", !.description = "seen", !.gps = Origin,
                    !.blurRadius = 0, !.uploadWhenSafe = uws]

LifecycleForms == {ValidForm(TRUE), ValidForm(FALSE)}

\* every combination of the fields the validation reads
ValidationForms ==
  {[EmptyForm EXCEPT !.category = c, !.description = d, !.gps = g, !.blurRadius = 0,
                     !.checklistMode = m, !.checklistTypes = ty] :
     c \in {"", "Other"}, d \in {"", "seen"}, g \in {Null, Origin},
     m \in BOOLEAN, ty \in ChecklistTypeChoices}

\* radii the quick buttons and the slider of the form offer
QuickBlurChoices == {0, 300, 2000}

\* valid forms over the fields that decide the gate and the blur radius
GateForms ==
  {[ValidForm(u) EXCEPT !.stealth = st, !.blurRadius = b] :
     u \in BOOLEAN, st \in BOOLEAN, b \in QuickBlurChoices}

\* valid forms over the anonymity choice, the contact details and the reward
\* opt-in; switching back to anonymous keeps what was typed
FilledContact ==
  [phone |-> "0240000000", email |-> "", wantsCallback |-> TRUE, preferredTime |-> ""]

IdentityForms ==
  {[ValidForm(FALSE) EXCEPT !.anonymous = a, !.contact = c, !.rewardOptIn = w] :
     a \in BOOLEAN, c \in {EmptyContact, FilledContact}, w \in BOOLEAN}

CreateForms == ValidationForms \cup GateForms \cup IdentityForms

(***************************************************************************)
(* Spec: one report in the whole environment (clock, connectivity,         *)
(* location, policy, form, lifecycle handlers, timers).                    *)
(***************************************************************************)
Next ==
  \/ ClockAdvance
  \/ onOnline
  \/ onOffline
  \/ setUserLoc
  \/ setMinMeters
  \/ setMaxWaitMins
  \/ setForm(LifecycleForms)
  \/ submitReport(SoloIds)
  \/ \E i \in 1..Len(reports) : advanceStatus(i)
  \/ \E i \in 1..Len(reports) : markResolvedDemo(i)
  \/ \E i \in 1..Len(reports) : deleteReport(i)
  \/ intervalTick
  \/ manualSync
  \/ syncTimeout

Spec == Init /\ [][Next]_vars

(***************************************************************************)
(* SpecPair: several reports in one collection; the clock stands still.    *)
(***************************************************************************)
NextPair ==
  \/ onOnline
  \/ onOffline
  \/ setUserLoc
  \/ setForm(LifecycleForms)
  \/ submitReport(PairIds)
  \/ \E i \in 1..Len(reports) : advanceStatus(i)
  \/ \E i \in 1..Len(reports) : markResolvedDemo(i)
  \/ \E i \in 1..Len(reports) : deleteReport(i)
  \/ intervalTick
  \/ manualSync
  \/ syncTimeout

SpecPair == Init /\ [][NextPair]_vars

(***************************************************************************)
(* SpecCreate: the New Report form and submitReport.                       *)
(***************************************************************************)
NextCreate ==
  \/ ClockAdvance
  \/ onOnline
  \/ onOffline
  \/ setForm(CreateForms)
  \/ submitReport(SoloIds)
  \/ \E i \in 1..Len(reports) : deleteReport(i)

SpecCreate == Init /\ [][NextCreate]_vars

(***************************************************************************)
(* SpecGate: the gate as a function.  A stored report, a location, a time  *)
(* and a policy are drawn; the environment moves and the card is rendered. *)
(***************************************************************************)
InitGate ==
  /\ \E u \in BOOLEAN, t0 \in {0, ClockStep}, o \in BOOLEAN :
        reports = <<newReport(ValidForm(u), 1, 0, t0, o)>>
  /\ online \in BOOLEAN
  /\ userLoc \in {Null, Origin} \cup Fixes
  /\ settings \in [minMeters : MinMetersChoices, maxWaitMins : MaxWaitMinsChoices]
  /\ form = EmptyForm
  /\ now \in {ClockStep, 2 * ClockStep}
  /\ timers = 0
  /\ signal = "none"
  /\ nextId = 2
  /\ probe = Null
  /\ due = FALSE
  /\ localStorage = [reports |-> saveReports(reports), settings |-> saveSettings(settings)]
  /\ mounted = TRUE
  /\ watchId = [current |-> 1]
  /\ watching = TRUE

NextGate ==
  \/ setUserLoc
  \/ setMinMeters
  \/ setMaxWaitMins
  \/ \E i \in 1..Len(reports) : render(i)

SpecGate == InitGate /\ [][NextGate]_vars

(***************************************************************************)
(* One report with the timers on their schedule: the interval callback     *)
(* runs only when it is due.  The browser runs a callback that stays due,  *)
(* lets 30 s pass, delivers the acknowledgement timeout and moves the      *)
(* clock; nothing makes the user tap a button.                             *)
(***************************************************************************)
NextLive ==
  \/ ClockAdvance
  \/ onOnline
  \/ onOffline
  \/ setUserLoc
  \/ setMinMeters
  \/ setMaxWaitMins
  \/ setForm(LifecycleForms)
  \/ submitReport(SoloIds)
  \/ \E i \in 1..Len(reports) : deleteReport(i)
  \/ intervalElapses
  \/ intervalFires
  \/ manualSync
  \/ syncTimeout

SpecLive ==
  /\ Init
  /\ [][NextLive]_vars
  /\ WF_vars(ClockAdvance)
  /\ WF_vars(intervalElapses)
  /\ WF_vars(intervalFires)
  /\ WF_vars(syncTimeout)

(***************************************************************************)
(* SpecStore: the application over a storage it did not write itself.  The *)
(* page is loaded over a storage whose two keys are missing, unparsable or *)
(* hold the text of some JSON value, and it is reloaded at any moment; the  *)
(* clock stands still.                                                     *)
(***************************************************************************)
StoredReport == newReport(ValidForm(FALSE), 1, 0, 0, FALSE)

StoredReportsChoices ==
  {Null, Garbled, stringify(JsonNull), saveReports(<<>>), saveReports(<<StoredReport>>)}

StoredSettingsChoices ==
  {Null, Garbled, stringify(JsonNull), saveSettings(DefaultSettings),
   saveSettings([minMeters |-> 2000, maxWaitMins |-> 60])}

\* useState(loadReports()), useState(loadSettings())
loaded(store) ==
  [storedReports |-> store.reports, storedSettings |-> store.settings,
   reports |-> loadReports(store.reports), settings |-> loadSettings(store.settings)]

\* the first render reads settings.safe (line 233) and the first use of the
\* collection calls reports.map / reports.length: a loaded value of another
\* shape ends in a TypeError no boundary catches, and React removes the tree
rendersFrom(store) ==
  /\ loaded(store).reports.kind = "array"
  /\ loaded(store).settings.kind = "object"

reportsFrom(store) ==
  IF rendersFrom(store) THEN loaded(store).reports.items ELSE <<>>

settingsFrom(store) ==
  IF rendersFrom(store) THEN loaded(store).settings.safe ELSE DefaultSettings

\* the two persistence effects of the first commit write the loaded values back
storageFrom(store) ==
  IF rendersFrom(store)
  THEN [reports |-> stringify(loaded(store).reports),
        settings |-> stringify(loaded(store).settings)]
  ELSE store

InitStore ==
  /\ \E store \in [reports : StoredReportsChoices, settings : StoredSettingsChoices] :
        /\ probe = loaded(store)
        /\ reports = reportsFrom(store)
        /\ settings = settingsFrom(store)
        /\ localStorage = storageFrom(store)
        /\ mounted = rendersFrom(store)
        /\ signal = IF rendersFrom(store) THEN "none" ELSE "TypeError"
        /\ watchId = IF rendersFrom(store) THEN [current |-> 1] ELSE Null
        /\ watching = rendersFrom(store)
        /\ nextId = IF store.reports = saveReports(<<StoredReport>>) THEN 2 ELSE 1
  /\ online \in BOOLEAN
  /\ userLoc = Null
  /\ form = EmptyForm
  /\ now = 0
  /\ timers = 0
  /\ due = FALSE

\* the page is reloaded, or is killed and opened again: every state of the
\* component is built anew from the storage, pending timers are gone.  A
\* process killed between setReports and the persistence effect of its commit
\* restarts from the storage as it was before the handler.
restart ==
  /\ probe' = loaded(localStorage)
  /\ reports' = reportsFrom(localStorage)
  /\ settings' = settingsFrom(localStorage)
  /\ localStorage' = storageFrom(localStorage)
  /\ mounted' = rendersFrom(localStorage)
  /\ signal' = IF rendersFrom(localStorage) THEN "none" ELSE "TypeError"
  /\ watchId' = IF rendersFrom(localStorage) THEN [current |-> 1] ELSE Null
  /\ watching' = rendersFrom(localStorage)
  /\ online' \in BOOLEAN
  /\ userLoc' = Null
  /\ form' = EmptyForm
  /\ timers' = 0
  /\ due' = FALSE
  /\ UNCHANGED <<now, nextId>>

NextStore ==
  \/ onOnline
  \/ onOffline
  \/ setMaxWaitMins
  \/ setForm(LifecycleForms)
  \/ submitReport(SoloIds)
  \/ \E i \in 1..Len(reports) : advanceStatus(i)
  \/ \E i \in 1..Len(reports) : markResolvedDemo(i)
  \/ \E i \in 1..Len(reports) : deleteReport(i)
  \/ manualSync
  \/ syncTimeout
  \/ restart

SpecStore == InitStore /\ [][NextStore]_vars

(***************************************************************************)
(* SpecTeardown: the component is unmounted while a timeout of manualSync  *)
(* may be pending.  watchPosition returned some identifier, or no watch    *)
(* was set up (no geolocation, or watchPosition threw).                    *)
(***************************************************************************)
WatchIds == {0, 1, 7}

InitTeardown ==
  /\ reports = <<>>
  /\ online \in BOOLEAN
  /\ userLoc = Null
  /\ settings = DefaultSettings
  /\ form = EmptyForm
  /\ now = 0
  /\ timers = 0
  /\ signal = "none"
  /\ nextId = 1
  /\ probe = Null
  /\ due = FALSE
  /\ localStorage = [reports |-> saveReports(<<>>), settings |-> saveSettings(DefaultSettings)]
  /\ mounted = TRUE
  /\ watchId \in {Null} \cup {[current |-> n] : n \in WatchIds}
  /\ watching = (watchId # Null)

\* the cleanups of the effects: the listeners are removed, clearInterval runs,
\* clearWatch runs if watchId.current is truthy; no cleanup clears the timeout
unmount ==
  /\ mounted
  /\ mounted' = FALSE
  /\ due' = FALSE
  /\ watching' = IF watchId # Null /\ watchId.current # 0 THEN FALSE ELSE watching
  /\ signal' = "none"
  /\ UNCHANGED <<reports, online, userLoc, settings, form, now, timers, nextId, probe,
                 localStorage, watchId>>

NextTeardown ==
  \/ ClockAdvance
  \/ onOnline
  \/ onOffline
  \/ setUserLoc
  \/ setForm(LifecycleForms)
  \/ submitReport(SoloIds)
  \/ \E i \in 1..Len(reports) : advanceStatus(i)
  \/ intervalElapses
  \/ intervalFires
  \/ manualSync
  \/ syncTimeout
  \/ unmount

SpecTeardown == InitTeardown /\ [][NextTeardown]_vars

(***************************************************************************)
(* SpecCapture: submitReport over positions as a location provider may     *)
(* hand them to captureGPS.  Coordinates are in 1e-4 degrees; no           *)
(* arithmetic of the model is applied to NaN.                              *)
(***************************************************************************)
OutOfRange == [lat |-> 950000, lon |-> -2000]

NonFinite == [lat |-> NaN, lon |-> -2000]

Positions == {Origin, OutOfRange, NonFinite}

CaptureForms ==
  {[ValidForm(u) EXCEPT !.gps = g, !.blurRadius = b] :
     u \in BOOLEAN, g \in Positions, b \in {0, 300}}

NextCapture ==
  \/ ClockAdvance
  \/ onOnline
  \/ onOffline
  \/ setForm(CaptureForms)
  \/ submitReport(SoloIds)
  \/ \E i \in 1..Len(reports) : deleteReport(i)

SpecCapture == Init /\ [][NextCapture]_vars

(***************************************************************************)
(* SpecRoundTrip: reports of every form the New Report tab can hold are    *)
(* created, stored, exported and loaded again by a reload of the page; the *)
(* clock stands still.                                                     *)
(***************************************************************************)
NextRoundTrip ==
  \/ onOnline
  \/ onOffline
  \/ setForm(CreateForms)
  \/ submitReport(SoloIds)
  \/ \E i \in 1..Len(reports) : deleteReport(i)
  \/ restart

SpecRoundTrip == Init /\ [][NextRoundTrip]_vars

(***************************************************************************)
(* Properties.                                                             *)
(***************************************************************************)
Reports == {reports[i] : i \in 1..Len(reports)}

\* C1: a report that requires safe upload is never Submitted or later while
\* its gate has not cleared (safeUpload.ready = FALSE).
C1_SubmissionWithheldUntilReady ==
  \A r \in Reports :
    (r.safeUpload.required /\ ~r.safeUpload.ready) => r.status = "Queued"

\* C2: every report has a non-empty history whose last entry's state is the
\* report's status.
C2_LastHistoryIsStatus ==
  \A r \in Reports :
    /\ Len(r.history) >= 1
    /\ r.history[Len(r.history)].state = r.status

C2_Witness ==
  \E r \in Reports :
    /\ Len(r.history) >= 3
    /\ r.history[1].state = "Queued"
    /\ r.status = "Received"

\* C3: the states of a history never go backwards in the order Queued,
\* Submitted, Received, In Progress, Resolved, and only Resolved may repeat.
C3_HistoryFollowsOrder ==
  \A r \in Reports :
    \A j, k \in 1..Len(r.history) :
      j < k =>
        /\ indexOf(r.history[j].state) >= 0
        /\ indexOf(r.history[j].state) <= indexOf(r.history[k].state)
        /\ (r.history[j].state = r.history[k].state => r.history[k].state = "Resolved")

C3_Witness ==
  \E r \in Reports :
    /\ countState(r.history, "Resolved") = 2
    /\ countState(r.history, "Submitted") = 1
    /\ countState(r.history, "Received") = 1

\* C4: once a report's safeUpload.ready is true it is true in every later
\* state in which the report is still in the collection.
C4_ReadyIsMonotone ==
  [][\A i \in 1..Len(reports) : \A j \in 1..Len(reports') :
       (reports[i].id = reports'[j].id /\ reports[i].safeUpload.ready)
         => reports'[j].safeUpload.ready]_vars

\* a latched report whose gate would no longer open: the fix moved back, or
\* the policy was tightened after the latch
C4_Witness ==
  \E r \in Reports :
    /\ r.safeUpload.required
    /\ r.safeUpload.ready
    /\ ~isReportSafeToUpload(r, userLoc, now)

\* the decision of section 4.2 for one evaluation p of the gate
referenceDecision(p) ==
  IF ~p.r.safeUpload.required THEN TRUE
  ELSE IF p.t - p.r.safeUpload.createdAt >= p.maxWaitMins * 60 * 1000 THEN TRUE
       ELSE IF p.loc = Null THEN FALSE
       ELSE haversine(p.loc.lat, p.loc.lon,
                      p.r.safeUpload.captureLoc.lat, p.r.safeUpload.captureLoc.lon)
              >= p.minMeters

waitElapsed(p) == p.t - p.r.safeUpload.createdAt >= p.maxWaitMins * 60 * 1000

\* C5: isReportSafeToUpload gives the reference decision for every report,
\* location, time and policy; with minMeters = 1000 and the wait not elapsed a
\* fix about 1055 m from the capture point is ready and one about 55 m is not.
C5_GateMatchesReference ==
  probe # Null =>
    /\ probe.safe = referenceDecision(probe)
    /\ (probe.r.safeUpload.required /\ probe.minMeters = 1000 /\ ~waitElapsed(probe)) =>
         /\ probe.r.safeUpload.captureLoc = Origin
         /\ (probe.loc = Far => probe.safe)
         /\ (probe.loc = Near => ~probe.safe)
         /\ (probe.loc = Null => ~probe.safe)

C5_Witness ==
  /\ probe # Null
  /\ probe.r.safeUpload.required
  /\ probe.minMeters = 1000
  /\ ~waitElapsed(probe)
  /\ probe.loc = Far
  /\ probe.safe

\* C6: manualSync while offline changes no report, schedules no delayed
\* acknowledgement and raises the offline alert.
C6_OfflineSyncChangesNothing ==
  [][(~online /\ manualSync) =>
       /\ reports' = reports
       /\ timers' = timers
       /\ signal' = "alert_offline"]_vars

C6_Witness ==
  /\ ~online
  /\ signal = "alert_offline"
  /\ timers = 0
  /\ \E r \in Reports : r.status = "Queued" /\ isReportSafeToUpload(r, userLoc, now)

\* C7: manualSync while online turns exactly the Queued reports for which the
\* gate holds into Submitted (one Submitted entry, ready latched), leaves every
\* other report as it is, moves no report to Received and schedules the
\* acknowledgement.
C7_SyncSubmitsReadyQueued ==
  [][(online /\ manualSync) =>
       /\ Len(reports') = Len(reports)
       /\ timers' = timers + 1
       /\ \A k \in 1..Len(reports) :
            IF reports[k].status = "Queued" /\ isReportSafeToUpload(reports[k], userLoc, now)
            THEN reports'[k] =
                   [reports[k] EXCEPT
                      !.status = "Submitted",
                      !.history = Append(reports[k].history,
                                         [state |-> "Submitted", at |-> now]),
                      !.safeUpload.ready = TRUE]
            ELSE reports'[k] = reports[k]]_vars

C7_Witness ==
  /\ online
  /\ timers > 0
  /\ \E a, b \in Reports :
       /\ a.status = "Submitted"
       /\ Len(a.history) = 2
       /\ a.history[1].state = "Queued"
       /\ a.safeUpload.ready
       /\ b.status = "Queued"
       /\ ~isReportSafeToUpload(b, userLoc, now)

\* C8: the delayed acknowledgement moves exactly the reports that are
\* Submitted when it fires to Received (one Received entry each) and leaves
\* the others alone; no history ever holds two Received entries.
C8_AckAdvancesSubmittedOnce ==
  /\ [][syncTimeout =>
         /\ Len(reports') = Len(reports)
         /\ \A k \in 1..Len(reports) :
              IF reports[k].status = "Submitted"
              THEN reports'[k] =
                     [reports[k] EXCEPT
                        !.status = "Received",
                        !.history = Append(reports[k].history,
                                           [state |-> "Received", at |-> now])]
              ELSE reports'[k] = reports[k]]_vars
  /\ [](\A r \in Reports : countState(r.history, "Received") <= 1)

\* one acknowledgement has fired, another one is still pending
C8_Witness ==
  /\ timers >= 1
  /\ Len(reports) = 2
  /\ \E r \in Reports :
       /\ r.status = "Received"
       /\ Len(r.history) = 3
       /\ r.history[2].state = "Submitted"

\* C9: a created report is Submitted if the process is online and Queued
\* otherwise, its history is the single entry {that state, creation time}, and
\* safeUpload.required holds exactly when upload-when-safe or stealth was
\* requested, with ready = ~required.
C9_CreatedReportShape ==
  [][Len(reports') = Len(reports) + 1 =>
       LET r == reports'[1]
       IN /\ r.status = IF online THEN "Submitted" ELSE "Queued"
          /\ r.createdAt = now
          /\ r.history = <<[state |-> r.status, at |-> now]>>
          /\ r.safeUpload.required = (form.uploadWhenSafe \/ form.stealth)
          /\ r.safeUpload.ready = ~r.safeUpload.required]_vars

C9_Witness ==
  \E r \in Reports :
    /\ r.status = "Queued"
    /\ r.createdAt = ClockStep
    /\ r.safeUpload.required
    /\ ~r.safeUpload.ready
    /\ form = EmptyForm

\* the three requirements of section 4.3 on the form handed to create
creationRequirementsMet(f) ==
  /\ f.category # "" \/ sel(f.checklistTypes) # {}
  /\ finalDesc(f) # <<>>
  /\ f.gps # Null

\* C10: submitReport on a form that lacks a category and a checklist
\* selection, or a description, or a location raises the validation alert and
\* changes neither the collection nor the form; a report is added only when
\* all three requirements are met.
C10_InvalidCreateRejected ==
  [][submitReport(SoloIds) =>
       /\ ~creationRequirementsMet(form) =>
            /\ reports' = reports
            /\ form' = form
            /\ nextId' = nextId
            /\ signal' = "alert_validation"
       /\ reports' # reports => creationRequirementsMet(form)]_vars

\* what advanceStatus does to a report that is not Resolved: one step forward
\* in STATUSES, one history entry with the new state, every other report as
\* it was
advancesOneStep(i) ==
  LET r == reports[i]
      next == STATUSES[indexOf(r.status) + 2]
      entry == [state |-> next, at |-> now]
  IN reports' = [reports EXCEPT ![i] = [r EXCEPT !.status = next,
                                                !.history = Append(@, entry)]]

\* C11 (as stated): advanceStatus on a report that is not Resolved moves it
\* one step forward, appends one history entry and leaves every other report
\* unchanged; on a Resolved report it fails with TerminalState and changes
\* nothing.
C11_AdvanceFailsWithTerminalState ==
  [][\A i \in 1..Len(reports) :
       advanceStatus(i) =>
         IF reports[i].status # "Resolved"
         THEN advancesOneStep(i)
         ELSE reports' = reports /\ signal' = "TerminalState"]_vars

\* C11 (amended): as above for a report that is not Resolved; on a Resolved
\* report advanceStatus is a silent no-op: it changes nothing and raises no
\* error.
C11_AdvanceOneStepOrSilentNoop ==
  [][\A i \in 1..Len(reports) :
       advanceStatus(i) =>
         IF reports[i].status # "Resolved"
         THEN advancesOneStep(i)
         ELSE reports' = reports /\ signal' = "none"]_vars

\* one report advanced step by step to Resolved next to an untouched one
C11_Witness ==
  /\ Len(reports) = 2
  /\ signal = "none"
  /\ \E a, b \in Reports :
       /\ a.status = "Resolved"
       /\ Len(a.history) = 5
       /\ a.history[4].state = "In Progress"
       /\ b.status = "Queued"
       /\ Len(b.history) = 1

\* C12: Resolved is terminal: a report whose status is Resolved has status
\* Resolved after every step that keeps it in the collection.
C12_ResolvedIsTerminal ==
  [][\A i \in 1..Len(reports) : \A j \in 1..Len(reports') :
       (reports[i].status = "Resolved" /\ reports'[j].id = reports[i].id)
         => reports'[j].status = "Resolved"]_vars

\* a report resolved twice, online, with an acknowledgement still pending
C12_Witness ==
  /\ online
  /\ timers > 0
  /\ \E r \in Reports :
       /\ r.status = "Resolved"
       /\ countState(r.history, "Resolved") = 2
       /\ r.safeUpload.required
       /\ r.safeUpload.ready

\* C13: markResolvedDemo is idempotent: on a report that is already Resolved
\* it leaves the report's status and history as they are, so no history holds
\* two Resolved entries.
C13_ForceResolveIdempotent ==
  /\ [][\A i \in 1..Len(reports) :
          (reports[i].status = "Resolved" /\ markResolvedDemo(i)) =>
             /\ reports'[i].status = reports[i].status
             /\ reports'[i].history = reports[i].history]_vars
  /\ [](\A r \in Reports : countState(r.history, "Resolved") <= 1)

\* a submission that passes the validation of submitReport
accepted(f) == ~rejected(deriveCategory(f))

\* C14: the blur radius stored by a create is the requested radius clamped to
\* [0, 2000]: 5000 gives 2000, -10 gives 0, and a request already in range is
\* stored as it is.
C14_StoredBlurIsClampedRequest ==
  /\ clamp(5000, 0, 2000) = 2000
  /\ clamp(-10, 0, 2000) = 0
  /\ [][(submitReport(SoloIds) /\ accepted(form)) =>
          /\ Len(reports') = Len(reports) + 1
          /\ reports'[1].blurRadius = clamp(form.blurRadius, 0, 2000)
          /\ form.blurRadius \in 0..2000 =>
               reports'[1].blurRadius = form.blurRadius]_vars

\* C15: the public location of a created report lies between
\* max(1, blurRadius / 2) and blurRadius metres from the exact location when
\* blurRadius > 0 and is the exact location when blurRadius = 0.
C15_PublicOffsetInRing ==
  [][(submitReport(SoloIds) /\ accepted(form)) =>
       /\ Len(reports') = Len(reports) + 1
       /\ LET r == reports'[1]
              d == haversine(r.gps.lat, r.gps.lon, r.publicOffset.lat, r.publicOffset.lon)
          IN IF clamp(form.blurRadius, 0, 2000) > 0
             THEN /\ 2 * d >= r.blurRadius
                  /\ d >= 1
                  /\ d <= r.blurRadius
             ELSE r.publicOffset = [lat |-> r.gps.lat, lon |-> r.gps.lon]]_vars

\* C16: id, createdAt, gps, blurRadius and publicOffset of a report are fixed
\* at creation: every step leaves them as they are for every report it keeps.
C16_CreationFieldsFixed ==
  [][\A i \in 1..Len(reports) : \A j \in 1..Len(reports') :
       reports'[j].id = reports[i].id =>
         /\ reports'[j].createdAt = reports[i].createdAt
         /\ reports'[j].gps = reports[i].gps
         /\ reports'[j].blurRadius = reports[i].blurRadius
         /\ reports'[j].publicOffset = reports[i].publicOffset]_vars

\* a report taken through sync, acknowledgement, latch and resolution at a
\* later time, under a changed policy and a location fix
C16_Witness ==
  /\ userLoc = Far
  /\ settings # DefaultSettings
  /\ \E r \in Reports :
       /\ r.createdAt < now
       /\ r.status = "Resolved"
       /\ Len(r.history) >= 4
       /\ r.history[2].state = "Submitted"
       /\ r.history[3].state = "Received"
       /\ r.safeUpload.required
       /\ r.safeUpload.ready
       /\ r.gps = Origin
       /\ r.publicOffset = [lat |-> Origin.lat, lon |-> Origin.lon]

\* C17: in every reachable state a report whose safeUpload.required is false
\* has safeUpload.ready true.
C17_NotRequiredIsReady ==
  \A r \in Reports : ~r.safeUpload.required => r.safeUpload.ready

\* an ungated report that was created earlier and has been through sync,
\* acknowledgement and resolution
C17_Witness ==
  \E r \in Reports :
    /\ ~r.safeUpload.required
    /\ r.safeUpload.ready
    /\ r.createdAt < now
    /\ r.status = "Resolved"
    /\ Len(r.history) >= 4

\* C20: in every reachable state a report with anonymous = true has no
\* contact and rewardOptIn = false, and a report that has a contact has
\* anonymous = false.
C20_AnonymousHasNoContact ==
  \A r \in Reports :
    /\ r.anonymous => (r.contact = Null /\ ~r.rewardOptIn)
    /\ r.contact # Null => ~r.anonymous

\* a stored anonymous report; IdentityForms submit it with and without
\* contact details and reward opt-in left in the form
C20_Witness ==
  /\ form = EmptyForm
  /\ signal = "none"
  /\ \E r \in Reports :
       /\ r.anonymous
       /\ r.contact = Null
       /\ ~r.rewardOptIn
       /\ r.description = <<"seen">>
       /\ r.status = "Submitted"

\* report id is in the collection, gated, not yet ready, and the wait of the
\* policy has elapsed since its creation
waitedOut(id) ==
  \E r \in Reports :
    /\ r.id = id
    /\ r.safeUpload.required
    /\ ~r.safeUpload.ready
    /\ now - r.createdAt >= settings.maxWaitMins * 60 * 1000

\* C18: if the interval callback keeps firing, a gated report whose wait has
\* elapsed does not stay unready in the collection: it becomes ready (or is
\* deleted, or the policy's wait is raised), whether or not a location fix
\* was ever obtained.
C18_WaitedOutBecomesReady ==
  []<><<intervalFires>>_vars => \A id \in SoloIds : waitedOut(id) ~> ~waitedOut(id)

\* a gated report latched ready by the elapsed wait alone: no fix was ever
\* obtained
C18_Witness ==
  /\ userLoc = Null
  /\ \E r \in Reports :
       /\ r.safeUpload.required
       /\ r.safeUpload.ready
       /\ r.status = "Submitted"
       /\ Len(r.history) = 1
       /\ now - r.createdAt >= settings.maxWaitMins * 60 * 1000

\* the process is online and report id is Queued with its gate open
queuedReadyOnline(id) ==
  /\ online
  /\ \E r \in Reports :
       /\ r.id = id
       /\ r.status = "Queued"
       /\ isReportSafeToUpload(r, userLoc, now)

\* C19: once connectivity is back, a Queued report whose gate is open is
\* eventually advanced to Submitted, by a tap on Sync or by the connectivity
\* change itself; it does not stay Queued for as long as the process stays
\* online, the report is kept and its gate stays open.
C19_ReconnectedQueueIsSubmitted ==
  \A id \in SoloIds : queuedReadyOnline(id) ~> ~queuedReadyOnline(id)

\* C22: markResolvedDemo on a report that is not Resolved sets its status to
\* Resolved and appends one Resolved history entry; no other field of the
\* report and no other report changes.
C22_ForceResolveFrame ==
  [][\A i \in 1..Len(reports) :
       (reports[i].status # "Resolved" /\ markResolvedDemo(i)) =>
         reports' = [reports EXCEPT
                       ![i] = [@ EXCEPT
                                 !.status = "Resolved",
                                 !.history = Append(@, [state |-> "Resolved",
                                                        at |-> now])]]]_vars

\* a gated report resolved straight from Queued, its gate still closed, next to
\* an untouched report
C22_Witness ==
  /\ Len(reports) = 2
  /\ \E a, b \in Reports :
       /\ a.status = "Resolved"
       /\ Len(a.history) = 2
       /\ a.history[1].state = "Queued"
       /\ a.safeUpload.required
       /\ ~a.safeUpload.ready
       /\ b.status = "Submitted"
       /\ Len(b.history) = 1

\* C23: the interval callback changes nothing but safeUpload.ready, and that
\* only from false to true for a required, not yet ready report for which the
\* gate holds when it runs: status and history stay as they are.  No handler
\* other than the callback and manualSync turns ready from false to true.
C23_TickOnlyLatchesReady ==
  /\ [][intervalTick =>
          /\ Len(reports') = Len(reports)
          /\ \A k \in 1..Len(reports) :
               reports'[k] =
                 IF /\ reports[k].safeUpload.required
                    /\ ~reports[k].safeUpload.ready
                    /\ isReportSafeToUpload(reports[k], userLoc, now)
                 THEN [reports[k] EXCEPT !.safeUpload.ready = TRUE]
                 ELSE reports[k]]_vars
  /\ [][(\E i \in 1..Len(reports) : \E j \in 1..Len(reports') :
           /\ reports'[j].id = reports[i].id
           /\ ~reports[i].safeUpload.ready
           /\ reports'[j].safeUpload.ready)
        => (intervalTick \/ manualSync)]_vars

\* a Queued report that no sync has touched, latched by the callback, and a
\* moment at which the gate no longer holds for the current policy
C23_Witness ==
  \E r \in Reports :
    /\ r.status = "Queued"
    /\ Len(r.history) = 1
    /\ r.safeUpload.required
    /\ r.safeUpload.ready
    /\ ~isReportSafeToUpload(r, userLoc, now)

\* the times and the fixes at which the gate is compared with itself
GateTimes == {k * ClockStep : k \in 0..3}

GateFixes == {Origin} \cup Fixes

\* metres between a fix and the capture point of a gated report
fromCapture(r, loc) ==
  haversine(loc.lat, loc.lon, r.safeUpload.captureLoc.lat, r.safeUpload.captureLoc.lon)

\* C24: for a fixed report and policy the gate is monotone: at a fixed
\* location (or none), once it holds because the wait has elapsed it holds at
\* every later time; at a fixed time, if it holds at one fix it holds at every
\* fix that is at least as far from the capture point.
C24_GateIsMonotone ==
  \A r \in Reports :
    /\ \A loc \in GateFixes \cup {Null} : \A t1, t2 \in GateTimes :
         (/\ t1 <= t2
          /\ t1 - r.createdAt >= settings.maxWaitMins * 60 * 1000
          /\ isReportSafeToUpload(r, loc, t1))
           => isReportSafeToUpload(r, loc, t2)
    /\ r.safeUpload.required =>
         \A t \in GateTimes : \A loc1, loc2 \in GateFixes :
           (/\ fromCapture(r, loc1) <= fromCapture(r, loc2)
            /\ isReportSafeToUpload(r, loc1, t))
             => isReportSafeToUpload(r, loc2, t)

\* the gate was evaluated for a gated report after its wait had been over for
\* a while, at a fix too close to open it by distance
C24_Witness ==
  /\ probe # Null
  /\ probe.r.safeUpload.required
  /\ probe.loc = Near
  /\ probe.t - probe.r.createdAt > probe.maxWaitMins * 60 * 1000
  /\ probe.safe

\* C25: the history of a report only grows at its end: for every step and
\* every report the step keeps, the history before the step is a prefix of
\* the history after it.
C25_HistoryAppendOnly ==
  [][\A i \in 1..Len(reports) : \A j \in 1..Len(reports') :
       reports'[j].id = reports[i].id =>
         /\ Len(reports'[j].history) >= Len(reports[i].history)
         /\ SubSeq(reports'[j].history, 1, Len(reports[i].history))
              = reports[i].history]_vars

\* a history that has grown by sync, acknowledgement, advance and two
\* resolutions
C25_Witness ==
  \E r \in Reports :
    /\ Len(r.history) >= 6
    /\ r.history[1].state = "Queued"
    /\ r.history[3].state = "Received"
    /\ countState(r.history, "Resolved") = 2

\* C26: the timestamps of a history are strictly increasing in history order,
\* also when several transitions happen without the clock advancing.
C26_TimestampsStrictlyIncrease ==
  \A r \in Reports : \A k \in 1..(Len(r.history) - 1) :
    r.history[k].at < r.history[k + 1].at

\* the reports left when the one at index i is taken out
without(i) == SubSeq(reports, 1, i - 1) \o SubSeq(reports, i + 1, Len(reports))

\* identifiers of the reports in the collection
idsOf(rs) == {rs[k].id : k \in 1..Len(rs)}

\* C28: deleteReport removes the report with the given id and nothing else,
\* the others keep their order; an identifier that was handed out and is not
\* in the collection never comes back, whatever runs afterwards.
C28_DeleteRemovesForGood ==
  /\ [][\A i \in 1..Len(reports) : deleteReport(i) => reports' = without(i)]_vars
  /\ [][\A id \in PairIds :
          (id < nextId /\ id \notin idsOf(reports)) => id \notin idsOf(reports')]_vars

\* the older of two reports was deleted; the newer one has since been
\* acknowledged while another acknowledgement is pending
C28_Witness ==
  /\ nextId = 3
  /\ timers > 0
  /\ idsOf(reports) = {2}
  /\ reports[1].status = "Received"

\* C21: loading never fails fatally: a stored collection that is missing or
\* is no report collection loads as the empty collection, stored settings
\* that are missing or are no settings load as the defaults, and the
\* application runs on what it loaded.
unreadable(raw, kind) ==
  \/ raw = Null
  \/ ~raw.parses
  \/ (raw.parses /\ raw.value.kind # kind)

C21_LoadNeverFatal ==
  /\ ~(~mounted /\ signal = "TypeError")
  /\ unreadable(probe.storedReports, "array") =>
       probe.reports = JsonArray(<<>>)
  /\ unreadable(probe.storedSettings, "object") =>
       probe.settings = JsonObject(DefaultSettings)

\* C27: the stored collection is the text of the in-memory collection after
\* every mutation, and every stored collection, also the one a restart finds,
\* holds only reports whose status is the state of their last history entry.
storedItems ==
  IF localStorage.reports # Null /\ localStorage.reports.parses
       /\ localStorage.reports.value.kind = "array"
  THEN localStorage.reports.value.items
  ELSE <<>>

C27_StoredCollectionIsCurrentAndConsistent ==
  /\ mounted => localStorage.reports = saveReports(reports)
  /\ \A k \in 1..Len(storedItems) :
       /\ Len(storedItems[k].history) > 0
       /\ storedItems[k].status = storedItems[k].history[Len(storedItems[k].history)].state
  /\ (mounted /\ probe.reports.kind = "array") =>
       \A k \in 1..Len(probe.reports.items) :
         probe.reports.items[k].status =
           probe.reports.items[k].history[Len(probe.reports.items[k].history)].state

C27_Witness ==
  /\ mounted
  /\ probe.storedReports = localStorage.reports
  /\ Len(reports) = 1
  /\ reports[1].status = "Received"
  /\ Len(reports[1].history) >= 3
  /\ probe.reports = JsonArray(reports)
  /\ timers = 0

\* C29: after the teardown neither the periodic tick nor a delayed Received
\* advancement of an earlier manualSync fires, and no report is mutated.
C29_NothingFiresAfterTeardown ==
  [][~mounted => (due' = due /\ timers' = timers /\ reports' = reports)]_vars

\* C30: after the shutdown the location watch is released, whatever
\* identifier the provider returned for it, and no location callback runs.
C30_WatchReleasedOnShutdown ==
  ~mounted => (~watching /\ signal # "position_after_unmount")

\* C33: no report goes from Submitted to Received while the application is
\* offline; an acknowledgement timeout that fires after the connection was
\* lost changes no report.
C33_NoReceivedWhileOffline ==
  /\ [][~online =>
          \A i \in 1..Len(reports), j \in 1..Len(reports') :
            (reports[i].id = reports'[j].id /\ reports[i].status = "Submitted")
              => reports'[j].status # "Received"]_vars
  /\ [][(~online /\ syncTimeout) => reports' = reports]_vars

\* C31: a capture whose exact location is not finite or lies outside
\* [-90, 90] x [-180, 180] degrees is rejected with InvalidLocation: no report
\* is created and the collection is unchanged.
validLocation(g) ==
  /\ g.lat # NaN /\ g.lon # NaN
  /\ g.lat >= -900000 /\ g.lat <= 900000
  /\ g.lon >= -1800000 /\ g.lon <= 1800000

C31_InvalidLocationRejected ==
  [][(form.gps # Null /\ ~validLocation(form.gps) /\ submitReport(SoloIds)) =>
       (signal' = "InvalidLocation" /\ reports' = reports)]_vars

====
